---- MODULE Spec2Model ----
(***************************************************************************)
(* IELTS scoring API (modelIELTS/app.py and modelIELTS/services).          *)
(*                                                                         *)
(* The state is the class-level cache of ModelManager, the singleton       *)
(* WhisperModelManager, the temporary audio files on disk and one task     *)
(* record per running piece of code: task 0 is the lifespan startup, tasks *)
(* 1..NumReq are HTTP requests.  Sync endpoints (def) run on worker        *)
(* threads and interleave freely; async endpoints (async def) run on the   *)
(* single event loop and give it up only at an await.                      *)
(***************************************************************************)
EXTENDS Integers, Sequences, FiniteSets, TLC

\* Number of HTTP requests a behaviour serves (bound of the model).
NumReq == 2

Lifespan == 0
Req == 1 .. NumReq
Callers == 0 .. NumReq

\* Python None for a cached handle; a loaded handle is named by its loader.
None == -1

VARIABLES
    writing_model,        \* ModelManager._writing_model
    writing_tokenizer,    \* ModelManager._writing_tokenizer
    speaking_model,       \* ModelManager._speaking_model
    speaking_tokenizer,   \* ModelManager._speaking_tokenizer
    speaking_available,   \* ModelManager._speaking_available: "None", "True", "False"
    whisper_service,      \* ModelManager._whisper_service: "None" or "whisper_manager"
    wm_model,             \* WhisperModelManager._model
    wm_model_size,        \* WhisperModelManager._model_size
    wm_loaded_size,       \* history: the size the last load was made with
    speaking_dir,         \* os.path.exists(SPEAKING_MODEL_DIR)
    whisper_installed,    \* whether `import whisper` succeeds
    services_imported,    \* the services package is in sys.modules
    files,                \* temporary audio files on disk, named by their creator
    loop,                 \* the task running on the event loop, 0 when it is free
    task,                 \* per task: position, inputs, locals, response
    nLoads,               \* history: completed model loads per kind
    load_failed,          \* history: a load of the kind has failed
    calc                  \* a scoring function's argument, then its result

vars == << writing_model, writing_tokenizer, speaking_model, speaking_tokenizer,
           speaking_available, whisper_service, wm_model, wm_model_size,
           wm_loaded_size, speaking_dir,
           whisper_installed, services_imported, files, loop, task, nLoads,
           load_failed, calc >>

sizeVars == << wm_model_size, wm_loaded_size >>
cacheVars == << writing_model, writing_tokenizer, speaking_model, speaking_tokenizer,
                speaking_available, whisper_service, wm_model, sizeVars >>
envVars == << speaking_dir, whisper_installed >>
histVars == << nLoads, load_failed >>

(***************************************************************************)
(* Configuration (app.py, speech_service.py)                               *)
(***************************************************************************)
ENABLE_WHISPER == TRUE
WHISPER_MODEL_SIZE == "base"
MinEssayLen == 50
MinAnswerLen == 10
MinTranscriptLen == 10
MAX_AUDIO_DURATION_SECONDS == 300
max_size_bytes == 25 * 1024 * 1024

SUPPORTED_AUDIO_FORMATS ==
    { <<".", "m", "p", "3">>, <<".", "w", "a", "v">>, <<".", "m", "4", "a">>,
      <<".", "f", "l", "a", "c">>, <<".", "o", "g", "g">>,
      <<".", "w", "e", "b", "m">>, <<".", "m", "p", "4">> }

(***************************************************************************)
(* Task records                                                            *)
(***************************************************************************)
IdleTask ==
    [ kind |-> "idle", pc |-> "idle",
      textlen |-> -1,          \* len(essay) / len(answer_text) / len(transcript)
      filename |-> <<>>,       \* audio.filename
      size |-> -1,             \* len(audio_bytes)
      decode |-> "pending",    \* whisper.load_audio: "pending", "ok", "failed"
      called |-> FALSE,        \* transcribe_audio_bytes has been entered
      suffix |-> <<>>,         \* suffix local of transcribe_audio_bytes
      temp_path |-> FALSE,     \* temp_path local of temp_audio_file is set
      duration |-> 0,          \* duration local of transcribe_audio
      os_fault |-> FALSE,      \* an OS-level I/O error hit the temp file
      asr_fetched |-> FALSE,   \* whisper_manager.model was read by this task
      asr_loaded |-> FALSE,    \* this task loaded the Whisper model
      asr_calls |-> 0,         \* calls of model.transcribe by this task
      size_arg |-> "none",     \* the size argument of change_model_size
      include_segments |-> FALSE,  \* include_segments of transcribe_audio
      confidence |-> None,     \* result.confidence
      fetched |-> FALSE,       \* a classifier was requested from ModelManager
      invoked |-> FALSE,       \* a classifier forward pass was run
      sawFailed |-> FALSE,     \* a load of the kind had failed before the get call
      attempted |-> FALSE,     \* this get call attempted a load
      checkedDisk |-> FALSE,   \* this get call looked at the disk
      got |-> <<None, None>>,  \* (model, tokenizer) the get call returned
      exc |-> "none", reason |-> "none",
      status |-> 0,
      body |-> {},             \* the fields of the response's JSON body
      health_speaking |-> FALSE, health_whisper |-> FALSE ]

LifespanTask == [ IdleTask EXCEPT !.kind = "lifespan", !.pc = "w_check" ]
ServingTask == [ IdleTask EXCEPT !.kind = "lifespan", !.pc = "serving" ]

Serving == task[Lifespan].pc = "serving"

SetTask(c, rec) == task' = [ task EXCEPT ![c] = rec ]


(***************************************************************************)
(* Exceptions at the request boundary                                      *)
(***************************************************************************)
\* A faulty variant of ExceptStatus: score-audio without `except HTTPException:
\* raise`, so that its own HTTPException lands in `except Exception`.
ExceptStatusNoReraise(kind, e, http) ==
    CASE kind = "score_audio" /\ e = "AudioValidationError" -> 400
      [] kind = "transcribe" /\ e = "AudioValidationError" -> 400
      [] OTHER -> 500

\* A faulty variant of ExceptBody: score-audio's error answer carries what the
\* handler has computed so far.
ExceptBodyLeaky(kind, e) ==
    IF kind = "score_audio"
    THEN { "detail", "transcript", "transcript_info" }
    ELSE { "detail" }

\* The except clauses of the four POST handlers: the HTTP status an exception
\* of kind e leaves the handler with (http: the status an HTTPException carries).
ExceptStatus(kind, e, http) ==
    CASE kind \in {"writing", "score_text"} -> 500
      [] kind = "score_audio" /\ e = "AudioValidationError" -> 400
      [] kind = "score_audio" /\ e = "HTTPException" -> http
      [] kind = "transcribe" /\ e = "AudioValidationError" -> 400
      [] OTHER -> 500

\* The shape of the error body: HTTPException gives {"detail"}; an exception
\* that leaves the handler reaches global_exception_handler: {"error", "detail"}.
ExceptBody(kind, e) ==
    IF kind \in {"score_audio", "transcribe"} /\ e = "UnboundLocalError"
    THEN { "error", "detail" }
    ELSE { "detail" }

\* The dict a handler returns on success.
ResponseBody(kind) ==
    CASE kind = "writing" ->
           { "overall_band", "confidence", "top_predictions", "feedback" }
      [] kind = "score_text" ->
           { "cefr_level", "approx_ielts_band", "feedback" }
      [] kind = "score_audio" ->
           { "transcript", "transcript_info", "cefr_level", "approx_ielts_band",
             "feedback" }
      [] kind = "transcribe" ->
           { "text", "language", "duration_seconds", "word_count" }
      [] kind = "health" ->
           { "status", "device", "models", "whisper_info" }

\* A faulty variant of LifespanOnError: the lifespan logs the error and goes
\* on to serve.
LifespanOnErrorSwallowed(rec, e, why) ==
    [ rec EXCEPT !.pc = "serving", !.exc = e, !.reason = why ]

\* An exception e raised in task rec outside any with-block: the lifespan has
\* no handler, so startup fails; a request handler turns it into a response.
LifespanOnError(rec, e, why) ==
    [ rec EXCEPT !.pc = "aborted", !.exc = e, !.reason = why ]

Raise(rec, e, why, http) ==
    IF rec.kind = "lifespan"
    THEN LifespanOnError(rec, e, why)
    ELSE [ rec EXCEPT !.pc = "respond", !.exc = e, !.reason = why,
                      !.status = ExceptStatus(rec.kind, e, http),
                      !.body = ExceptBody(rec.kind, e) ]

\* The response leaves and the worker is free for the next request; an async
\* handler gives the event loop back.  `files` follows the temporary files of
\* the requests in flight only.
Respond(c) ==
    /\ task[c].pc = "respond"
    /\ SetTask(c, IdleTask)
    /\ loop' = IF loop = c THEN 0 ELSE loop
    /\ files' = files \ {c}
    /\ UNCHANGED << cacheVars, envVars, services_imported, histVars >>

(***************************************************************************)
(* ModelManager.get_writing_model                                          *)
(***************************************************************************)
\* A faulty variant of NeedsLoad: the guard dropped, every call loads.
NeedsLoadAlways(handle) == TRUE

\* `if cls._writing_model is None`, `if cls._speaking_model is None`,
\* `if self._model is None`
NeedsLoad(handle) == handle = None

AfterGet(kind) ==
    CASE kind = "lifespan" -> "l_speaking"
      [] OTHER -> "w_infer"

GetWritingModel(c) ==
    /\ task[c].pc = "w_check"
    /\ LET rec == [ task[c] EXCEPT !.fetched = TRUE,
                                   !.sawFailed = load_failed.writing ]
       IN  SetTask(c, IF NeedsLoad(writing_model)
                      THEN [ rec EXCEPT !.pc = "w_tok" ]
                      ELSE [ rec EXCEPT !.pc = AfterGet(rec.kind),
                                        !.got = << writing_model, writing_tokenizer >> ])
    /\ UNCHANGED << cacheVars, envVars, services_imported, files, loop, histVars >>

LoadWritingTokenizer(c) ==
    /\ task[c].pc = "w_tok"
    /\ \/ /\ writing_tokenizer' = c
          /\ SetTask(c, [ task[c] EXCEPT !.pc = "w_model", !.attempted = TRUE ])
          /\ UNCHANGED load_failed
       \/ /\ SetTask(c, Raise([ task[c] EXCEPT !.attempted = TRUE ],
                              "OSError", "load_writing", 0))
          /\ load_failed' = [ load_failed EXCEPT !.writing = TRUE ]
          /\ UNCHANGED writing_tokenizer
    /\ UNCHANGED << writing_model, speaking_model, speaking_tokenizer,
                    speaking_available, whisper_service, wm_model, sizeVars, envVars,
                    services_imported, files, loop, nLoads >>

LoadWritingModel(c) ==
    /\ task[c].pc = "w_model"
    /\ \/ /\ writing_model' = c
          /\ nLoads' = [ nLoads EXCEPT !.writing = @ + 1 ]
          /\ SetTask(c, [ task[c] EXCEPT !.pc = "w_ret" ])
          /\ UNCHANGED load_failed
       \/ /\ SetTask(c, Raise(task[c], "OSError", "load_writing", 0))
          /\ load_failed' = [ load_failed EXCEPT !.writing = TRUE ]
          /\ UNCHANGED << writing_model, nLoads >>
    /\ UNCHANGED << writing_tokenizer, speaking_model, speaking_tokenizer,
                    speaking_available, whisper_service, wm_model, sizeVars, envVars,
                    services_imported, files, loop >>

ReturnWritingModel(c) ==
    /\ task[c].pc = "w_ret"
    /\ SetTask(c, [ task[c] EXCEPT !.pc = AfterGet(task[c].kind),
                                   !.got = << writing_model, writing_tokenizer >> ])
    /\ UNCHANGED << cacheVars, envVars, services_imported, files, loop, histVars >>

(***************************************************************************)
(* ModelManager.get_speaking_model, is_speaking_available                  *)
(***************************************************************************)
PyBool(b) == IF b THEN "True" ELSE "False"

\* `if cls._speaking_available is None: cls._speaking_available = os.path.exists(..)`
CheckedAvailable == 
    IF speaking_available = "None" THEN PyBool(speaking_dir) ELSE speaking_available

AfterGetSpeaking(kind) ==
    CASE kind = "lifespan" -> "l_whisper"
      [] OTHER -> "sp_infer"

GetSpeakingModel(c) ==
    /\ task[c].pc = "sp_avail"
    /\ speaking_available' = CheckedAvailable
    /\ LET rec == [ task[c] EXCEPT !.fetched = TRUE,
                                   !.sawFailed = load_failed.speaking,
                                   !.checkedDisk = (speaking_available = "None") ]
       IN  IF CheckedAvailable = "False"
           THEN /\ SetTask(c, Raise(rec, "FileNotFoundError", "model_unavailable", 0))
                /\ load_failed' = [ load_failed EXCEPT !.speaking = TRUE ]
           ELSE /\ SetTask(c, IF NeedsLoad(speaking_model)
                               THEN [ rec EXCEPT !.pc = "sp_tok" ]
                               ELSE [ rec EXCEPT
                                        !.pc = AfterGetSpeaking(rec.kind),
                                        !.got = << speaking_model, speaking_tokenizer >> ])
                /\ UNCHANGED load_failed
    /\ UNCHANGED << writing_model, writing_tokenizer, speaking_model,
                    speaking_tokenizer, whisper_service, wm_model, sizeVars, envVars,
                    services_imported, files, loop, nLoads >>

LoadSpeakingTokenizer(c) ==
    /\ task[c].pc = "sp_tok"
    /\ \/ /\ speaking_tokenizer' = c
          /\ SetTask(c, [ task[c] EXCEPT !.pc = "sp_model", !.attempted = TRUE ])
          /\ UNCHANGED load_failed
       \/ /\ SetTask(c, Raise([ task[c] EXCEPT !.attempted = TRUE ],
                              "OSError", "load_speaking", 0))
          /\ load_failed' = [ load_failed EXCEPT !.speaking = TRUE ]
          /\ UNCHANGED speaking_tokenizer
    /\ UNCHANGED << writing_model, writing_tokenizer, speaking_model,
                    speaking_available, whisper_service, wm_model, sizeVars, envVars,
                    services_imported, files, loop, nLoads >>

LoadSpeakingModel(c) ==
    /\ task[c].pc = "sp_model"
    /\ \/ /\ speaking_model' = c
          /\ nLoads' = [ nLoads EXCEPT !.speaking = @ + 1 ]
          /\ SetTask(c, [ task[c] EXCEPT !.pc = "sp_ret" ])
          /\ UNCHANGED load_failed
       \/ /\ SetTask(c, Raise(task[c], "OSError", "load_speaking", 0))
          /\ load_failed' = [ load_failed EXCEPT !.speaking = TRUE ]
          /\ UNCHANGED << speaking_model, nLoads >>
    /\ UNCHANGED << writing_model, writing_tokenizer, speaking_tokenizer,
                    speaking_available, whisper_service, wm_model, sizeVars, envVars,
                    services_imported, files, loop >>

ReturnSpeakingModel(c) ==
    /\ task[c].pc = "sp_ret"
    /\ SetTask(c, [ task[c] EXCEPT !.pc = AfterGetSpeaking(task[c].kind),
                                   !.got = << speaking_model, speaking_tokenizer >> ])
    /\ UNCHANGED << cacheVars, envVars, services_imported, files, loop, histVars >>

\* lifespan: `if ModelManager.is_speaking_available(): ModelManager.get_speaking_model()`
LifespanSpeaking ==
    /\ task[Lifespan].pc = "l_speaking"
    /\ speaking_available' = CheckedAvailable
    /\ SetTask(Lifespan, [ task[Lifespan] EXCEPT
            !.pc = IF CheckedAvailable = "True" THEN "sp_avail" ELSE "l_whisper" ])
    /\ UNCHANGED << writing_model, writing_tokenizer, speaking_model,
                    speaking_tokenizer, whisper_service, wm_model, sizeVars, envVars,
                    services_imported, files, loop, histVars >>

(***************************************************************************)
(* Classifier inference: predict_writing_band, predict_cefr_and_band       *)
(***************************************************************************)
\* tokenizer + forward pass after get_writing_model returned; a runtime error
\* lands in the handler's `except Exception`.
PredictWritingBand(c) ==
    /\ task[c].pc = "w_infer"
    /\ \/ SetTask(c, [ task[c] EXCEPT !.pc = "respond", !.invoked = TRUE,
                                      !.status = 200,
                                      !.body = ResponseBody(task[c].kind) ])
       \/ SetTask(c, Raise([ task[c] EXCEPT !.invoked = TRUE ],
                           "RuntimeError", "inference", 0))
    /\ UNCHANGED << cacheVars, envVars, services_imported, files, loop, histVars >>

PredictCefrAndBand(c) ==
    /\ task[c].pc = "sp_infer"
    /\ \/ SetTask(c, [ task[c] EXCEPT !.pc = "respond", !.invoked = TRUE,
                                      !.status = 200,
                                      !.body = ResponseBody(task[c].kind) ])
       \/ SetTask(c, Raise([ task[c] EXCEPT !.invoked = TRUE ],
                           "RuntimeError", "inference", 0))
    /\ UNCHANGED << cacheVars, envVars, services_imported, files, loop, histVars >>

(***************************************************************************)
(* `from services.speech_service import ...`                               *)
(***************************************************************************)
\* The first import runs services/__init__.py, whose import of writing_service
\* loads the writing model at module level and re-raises on failure; then
\* speech_service imports whisper.  The outcomes: << exception, sys.modules >>.
ImportSpeechService ==
    LET whisper == IF whisper_installed THEN "ok" ELSE "ImportError"
    IN  IF services_imported
        THEN { << whisper, TRUE >> }
        ELSE { << whisper, TRUE >>, << "OSError", FALSE >> }

(***************************************************************************)
(* WhisperModelManager.model, _load_model                                  *)
(***************************************************************************)
\* An exception inside the with-block of transcribe_audio_bytes first runs the
\* finally clause of temp_audio_file.
RaiseInWith(rec, e, why) ==
    CASE rec.kind = "lifespan" -> LifespanOnError(rec, e, why)
      [] rec.kind = "preload" ->
           [ rec EXCEPT !.pc = "returned", !.exc = e, !.reason = why ]
      [] OTHER -> [ rec EXCEPT !.pc = "t_finally", !.exc = e, !.reason = why ]

AfterWhisperModel(kind) ==
    CASE kind = "lifespan" -> "l_ready"
      [] kind = "preload" -> "returned"
      [] OTHER -> "t_transcribe"

WhisperModel(c) ==
    /\ task[c].pc = "wm_check"
    /\ SetTask(c, [ task[c] EXCEPT
            !.pc = IF NeedsLoad(wm_model) THEN "wm_load"
                   ELSE AfterWhisperModel(task[c].kind),
            !.asr_fetched = TRUE ])
    /\ UNCHANGED << cacheVars, envVars, services_imported, files, loop, histVars >>

\* A faulty variant of WhisperLoadModel: a failed load leaves a handle behind,
\* so that the next access takes the model as loaded.
WhisperLoadModelCaching(c) ==
    /\ task[c].pc = "wm_load"
    /\ \/ /\ wm_model' = c
          /\ wm_loaded_size' = wm_model_size
          /\ nLoads' = [ nLoads EXCEPT !.whisper = @ + 1 ]
          /\ SetTask(c, [ task[c] EXCEPT !.pc = AfterWhisperModel(task[c].kind),
                                         !.asr_loaded = TRUE ])
          /\ UNCHANGED load_failed
       \/ /\ wm_model' = c
          /\ SetTask(c, RaiseInWith(task[c], "RuntimeError", "whisper_load"))
          /\ load_failed' = [ load_failed EXCEPT !.whisper = TRUE ]
          /\ UNCHANGED << wm_loaded_size, nLoads >>
    /\ UNCHANGED << writing_model, writing_tokenizer, speaking_model,
                    speaking_tokenizer, speaking_available, whisper_service,
                    wm_model_size, envVars, services_imported, files, loop >>

WhisperLoadModel(c) ==
    /\ task[c].pc = "wm_load"
    /\ \/ /\ wm_model' = c
          /\ wm_loaded_size' = wm_model_size
          /\ nLoads' = [ nLoads EXCEPT !.whisper = @ + 1 ]
          /\ SetTask(c, [ task[c] EXCEPT !.pc = AfterWhisperModel(task[c].kind),
                                         !.asr_loaded = TRUE ])
          /\ UNCHANGED load_failed
       \/ /\ SetTask(c, RaiseInWith(task[c], "RuntimeError", "whisper_load"))
          /\ load_failed' = [ load_failed EXCEPT !.whisper = TRUE ]
          /\ UNCHANGED << wm_model, wm_loaded_size, nLoads >>
    /\ UNCHANGED << writing_model, writing_tokenizer, speaking_model,
                    speaking_tokenizer, speaking_available, whisper_service,
                    wm_model_size, envVars, services_imported, files, loop >>

\* lifespan: `if ENABLE_WHISPER: ModelManager.get_whisper_service()`
LifespanWhisper ==
    /\ task[Lifespan].pc = "l_whisper"
    /\ IF whisper_service = "None" /\ ENABLE_WHISPER
       THEN \E o \in ImportSpeechService :
              /\ services_imported' = o[2]
              /\ SetTask(Lifespan,
                    CASE o[1] = "ok" -> [ task[Lifespan] EXCEPT !.pc = "wm_check" ]
                      [] o[1] = "ImportError" -> [ task[Lifespan] EXCEPT !.pc = "serving" ]
                      [] OTHER -> Raise(task[Lifespan], o[1], "import", 0))
       ELSE /\ SetTask(Lifespan, [ task[Lifespan] EXCEPT !.pc = "serving" ])
            /\ UNCHANGED services_imported
    /\ UNCHANGED << cacheVars, envVars, files, loop, histVars >>

\* get_whisper_service after preload_model() returned:
\* `cls._whisper_service = whisper_manager`; then the lifespan yields.
LifespanReady ==
    /\ task[Lifespan].pc = "l_ready"
    /\ whisper_service' = "whisper_manager"
    /\ SetTask(Lifespan, [ task[Lifespan] EXCEPT !.pc = "serving" ])
    /\ UNCHANGED << writing_model, writing_tokenizer, speaking_model,
                    speaking_tokenizer, speaking_available, wm_model, sizeVars, envVars,
                    services_imported, files, loop, histVars >>

(***************************************************************************)
(* whisper_manager used directly: preload_model, change_model_size         *)
(***************************************************************************)
\* The model sizes change_model_size accepts.
ModelSizes == { "tiny", "base", "small", "medium", "large" }

\* Sizes a caller may ask for: the valid ones and one that is not.
SizeArgs == ModelSizes \cup { "huge" }

\* A caller makes at most MaxLoads calls of preload_model that load.
MaxLoads == 3

\* Caller c is between two calls, and it is the only caller.
BetweenCalls(c) ==
    /\ task[c].pc \in { "idle", "returned" }
    /\ \A q \in Callers \ {c} : task[q].pc = "idle"

\* preload_model(): `_ = whisper_manager.model`
PreloadModel(c) ==
    /\ BetweenCalls(c)
    /\ nLoads.whisper < MaxLoads
    /\ SetTask(c, [ IdleTask EXCEPT !.kind = "preload", !.pc = "wm_check" ])
    /\ UNCHANGED << cacheVars, envVars, services_imported, files, loop, histVars >>

\* A faulty variant of ChangeModelSize: the cached model is not cleared.
ChangeModelSizeKeepsModel(c, size) ==
    /\ BetweenCalls(c)
    /\ LET rec == [ IdleTask EXCEPT !.kind = "change_model_size",
                                    !.pc = "returned", !.size_arg = size ]
       IN  IF size \notin ModelSizes
           THEN /\ SetTask(c, [ rec EXCEPT !.exc = "ValueError",
                                           !.reason = "invalid_size" ])
                /\ UNCHANGED << wm_model_size, wm_model >>
           ELSE /\ SetTask(c, rec)
                /\ wm_model_size' = size
                /\ UNCHANGED wm_model
    /\ UNCHANGED << writing_model, writing_tokenizer, speaking_model,
                    speaking_tokenizer, speaking_available, whisper_service,
                    wm_loaded_size, envVars, services_imported, files, loop,
                    histVars >>

\* WhisperModelManager.change_model_size(size)
ChangeModelSize(c, size) ==
    /\ BetweenCalls(c)
    /\ LET rec == [ IdleTask EXCEPT !.kind = "change_model_size",
                                    !.pc = "returned", !.size_arg = size ]
       IN  IF size \notin ModelSizes
           THEN /\ SetTask(c, [ rec EXCEPT !.exc = "ValueError",
                                           !.reason = "invalid_size" ])
                /\ UNCHANGED << wm_model_size, wm_model >>
           ELSE /\ SetTask(c, rec)
                /\ IF size # wm_model_size
                   THEN /\ wm_model_size' = size
                        /\ wm_model' = None
                   ELSE UNCHANGED << wm_model_size, wm_model >>
    /\ UNCHANGED << writing_model, writing_tokenizer, speaking_model,
                    speaking_tokenizer, speaking_available, whisper_service,
                    wm_loaded_size, envVars, services_imported, files, loop,
                    histVars >>

(***************************************************************************)
(* File names: Path(filename).suffix.lower()                               *)
(***************************************************************************)
UpperToLower ==
    [ A |-> "a", M |-> "m", P |-> "p", V |-> "v", W |-> "w", X |-> "x",
      Y |-> "y", Z |-> "z" ]

LowerChar(ch) == IF ch \in DOMAIN UpperToLower THEN UpperToLower[ch] ELSE ch

Lower(str) == [ i \in 1 .. Len(str) |-> LowerChar(str[i]) ]

\* str.rfind("."), 1-based; 0 when there is no dot
RFindDot(str) ==
    LET dots == { i \in 1 .. Len(str) : str[i] = "." }
    IN  IF dots = {} THEN 0 ELSE CHOOSE i \in dots : \A j \in dots : j <= i

\* PurePath.suffix: the last dot and what follows it, unless the name starts
\* or ends with that dot
PathSuffix(name) ==
    LET i == RFindDot(name)
    IN  IF 1 < i /\ i < Len(name) THEN SubSeq(name, i, Len(name)) ELSE <<>>

\* `a or b` on strings
OrElse(str, default) == IF str = <<>> THEN default ELSE str

DotWav == << ".", "w", "a", "v" >>
AudioDotWav == << "a", "u", "d", "i", "o" >> \o DotWav

\* A faulty variant of SuffixOf: the `or ".wav"` default dropped.
SuffixOfNoDefault(filename) == Lower(PathSuffix(filename))

\* transcribe_audio_bytes: `suffix = Path(filename).suffix.lower() or ".wav"`
SuffixOf(filename) == OrElse(Lower(PathSuffix(filename)), DotWav)

Supported(suffix) == suffix \in SUPPORTED_AUDIO_FORMATS

(***************************************************************************)
(* validate_audio_file, get_audio_duration                                 *)
(***************************************************************************)
\* A faulty variant of TooLarge: the size check dropped.
TooLargeNever(file_size) == FALSE

TooLarge(file_size) == file_size > max_size_bytes
IsEmpty(file_size) == file_size = 0

\* The reason validate_audio_file raises AudioValidationError with, in the
\* order of its checks; "none" when the file passes.
ValidateAudioFile(exists, suffix, file_size) ==
    CASE ~exists -> "not_found"
      [] ~Supported(suffix) -> "unsupported"
      [] TooLarge(file_size) -> "too_large"
      [] IsEmpty(file_size) -> "empty"
      [] OTHER -> "none"

\* len(audio) / SAMPLE_RATE; whisper.load_audio raising is caught: `return 0.0`
GetAudioDuration(decoded, seconds) == IF decoded THEN seconds ELSE 0

TooLong(duration) == duration > MAX_AUDIO_DURATION_SECONDS

(***************************************************************************)
(* transcribe_audio_bytes, temp_audio_file, transcribe_audio               *)
(***************************************************************************)
\* Get the extension and validate it, before any file is created.
TranscribeAudioBytes(c) ==
    /\ task[c].pc = "t_ext"
    /\ LET suffix == SuffixOf(OrElse(task[c].filename, AudioDotWav))
           rec == [ task[c] EXCEPT !.called = TRUE, !.suffix = suffix,
                                   !.include_segments = FALSE ]
       IN  SetTask(c, IF Supported(suffix)
                      THEN [ rec EXCEPT !.pc = "t_create" ]
                      ELSE [ rec EXCEPT !.pc = "t_ret",
                                        !.exc = "AudioValidationError",
                                        !.reason = "unsupported" ])
    /\ UNCHANGED << cacheVars, envVars, services_imported, files, loop, histVars >>

\* temp_audio_file up to its yield: NamedTemporaryFile(delete=False) creates
\* the file, write() fills it, and only then is temp_path set.  When creating
\* or writing raises, the finally clause finds temp_path None and removes nothing.
TempAudioFileEnter(c) ==
    /\ task[c].pc = "t_create"
    /\ \/ /\ files' = files \cup {c}
          /\ SetTask(c, [ task[c] EXCEPT !.pc = "t_validate", !.temp_path = TRUE ])
       \/ /\ files' = files \cup {c}
          /\ SetTask(c, [ task[c] EXCEPT !.pc = "t_ret", !.exc = "OSError",
                                         !.reason = "write", !.os_fault = TRUE ])
       \/ /\ UNCHANGED files
          /\ SetTask(c, [ task[c] EXCEPT !.pc = "t_ret", !.exc = "OSError",
                                         !.reason = "create", !.os_fault = TRUE ])
    /\ UNCHANGED << cacheVars, envVars, services_imported, loop, histVars >>

\* transcribe_audio: validate_audio_file(file_path)
TranscribeValidate(c) ==
    /\ task[c].pc = "t_validate"
    /\ LET why == ValidateAudioFile(c \in files, task[c].suffix, task[c].size)
       IN  SetTask(c, IF why = "none"
                      THEN [ task[c] EXCEPT !.pc = "t_duration" ]
                      ELSE RaiseInWith(task[c], "AudioValidationError", why))
    /\ UNCHANGED << cacheVars, envVars, services_imported, files, loop, histVars >>

\* What decoding the payload may give: << decodable, seconds >>.
Decodings ==
    { << FALSE, 0 >>, << TRUE, MAX_AUDIO_DURATION_SECONDS >>,
      << TRUE, MAX_AUDIO_DURATION_SECONDS + 1 >> }

\* transcribe_audio: the duration check
TranscribeDuration(c) ==
    /\ task[c].pc = "t_duration"
    /\ \E d \in Decodings :
         LET duration == GetAudioDuration(d[1], d[2])
             rec == [ task[c] EXCEPT !.decode = IF d[1] THEN "ok" ELSE "failed",
                                     !.duration = duration ]
         IN  SetTask(c, IF TooLong(duration)
                        THEN RaiseInWith(rec, "AudioValidationError", "too_long")
                        ELSE [ rec EXCEPT !.pc = "wm_check" ])
    /\ UNCHANGED << cacheVars, envVars, services_imported, files, loop, histVars >>

\* dict.get(key, default)
DictGet(dict, key, default) == IF key \in DOMAIN dict THEN dict[key] ELSE default

RECURSIVE SumOver(_, _)
SumOver(x, S) ==
    IF S = {} THEN 0
    ELSE LET i == CHOOSE j \in S : TRUE IN x[i] + SumOver(x, S \ {i})

\* The engine's result holds at most MaxSegments segments.
MaxSegments == 2

\* no_speech_prob of a segment, in units of 1 / 100000.
NoSpeechProbs == { 100000 }

\* A segment of the engine's result; the no_speech_prob key may be missing.
Segment ==
    { [ text |-> "seg", no_speech_prob |-> p ] : p \in NoSpeechProbs }
        \cup { [ text |-> "seg" ] }

\* result.get("segments", []): what the engine may list.
EngineSegments == UNION { [ 1 .. n -> Segment ] : n \in 0 .. MaxSegments }

\* A faulty variant of transcribe_audio_result: the confidence is taken from
\* the engine's segments whether or not they were asked for.
transcribe_audio_result_always(include_segments, result_segments) ==
    LET segments == IF include_segments THEN result_segments ELSE << >>
        probs == [ n \in 1 .. Len(result_segments) |->
                     DictGet(result_segments[n], "no_speech_prob", 0) ]
    IN  [ segments |-> segments,
          confidence |-> IF probs # << >>
                         THEN 100000 - (SumOver(probs, DOMAIN probs) \div Len(probs))
                         ELSE None ]

\* transcribe_audio after model.transcribe returned: the segments kept and the
\* confidence, 1.0 - mean(no_speech_prob), in units of 1 / 100000.
transcribe_audio_result(include_segments, result_segments) ==
    LET segments == IF include_segments THEN result_segments ELSE << >>
        probs == [ n \in 1 .. Len(segments) |->
                     DictGet(segments[n], "no_speech_prob", 0) ]
    IN  [ segments |-> segments,
          confidence |-> IF segments # << >> /\ probs # << >>
                         THEN 100000 - (SumOver(probs, DOMAIN probs) \div Len(probs))
                         ELSE None ]

\* Lengths of the stripped transcript the engine may produce.
TranscriptLens == { MinTranscriptLen - 1, MinTranscriptLen }

\* A faulty variant of TranscribeRun: an engine error is answered by calling
\* the engine once more.
TranscribeRunRetry(c) ==
    /\ task[c].pc = "t_transcribe"
    /\ \/ \E n \in TranscriptLens, result_segments \in EngineSegments :
            SetTask(c, [ task[c] EXCEPT
                !.pc = "t_finally", !.textlen = n, !.asr_calls = @ + 1,
                !.confidence =
                    transcribe_audio_result(task[c].include_segments,
                                            result_segments).confidence ])
       \/ SetTask(c, IF task[c].asr_calls = 0
                      THEN [ task[c] EXCEPT !.asr_calls = @ + 1 ]
                      ELSE RaiseInWith([ task[c] EXCEPT !.asr_calls = @ + 1 ],
                                       "RuntimeError", "transcription_failed"))
    /\ UNCHANGED << cacheVars, envVars, services_imported, files, loop, histVars >>

\* transcribe_audio: model.transcribe(...) inside try/except Exception
TranscribeRun(c) ==
    /\ task[c].pc = "t_transcribe"
    /\ \/ \E n \in TranscriptLens, result_segments \in EngineSegments :
            SetTask(c, [ task[c] EXCEPT
                !.pc = "t_finally", !.textlen = n, !.asr_calls = @ + 1,
                !.confidence =
                    transcribe_audio_result(task[c].include_segments,
                                            result_segments).confidence ])
       \/ SetTask(c, RaiseInWith([ task[c] EXCEPT !.asr_calls = @ + 1 ],
                                 "RuntimeError", "transcription_failed"))
    /\ UNCHANGED << cacheVars, envVars, services_imported, files, loop, histVars >>

\* temp_audio_file, finally: unlink when temp_path is set and the file exists;
\* a failing unlink is logged and swallowed.
TempAudioFileExit(c) ==
    /\ task[c].pc = "t_finally"
    /\ IF task[c].temp_path /\ c \in files
       THEN \/ /\ files' = files \ {c}
               /\ SetTask(c, [ task[c] EXCEPT !.pc = "t_ret" ])
            \/ /\ UNCHANGED files
               /\ SetTask(c, [ task[c] EXCEPT !.pc = "t_ret", !.os_fault = TRUE ])
       ELSE /\ UNCHANGED files
            /\ SetTask(c, [ task[c] EXCEPT !.pc = "t_ret" ])
    /\ UNCHANGED << cacheVars, envVars, services_imported, loop, histVars >>

\* A faulty variant of MeaningfulTranscript: the transcript check dropped.
MeaningfulTranscriptAny(n) == TRUE

\* score-audio: `if not transcript or len(transcript.strip()) < 10`
MeaningfulTranscript(n) == n >= MinTranscriptLen

\* transcribe_audio_bytes has returned or raised: its frame is gone, and the
\* handler does not look at the upload again.
Returned(rec) ==
    [ rec EXCEPT !.filename = IdleTask.filename, !.size = IdleTask.size,
                 !.suffix = IdleTask.suffix, !.temp_path = IdleTask.temp_path,
                 !.decode = IdleTask.decode, !.duration = IdleTask.duration,
                 !.os_fault = IdleTask.os_fault ]

\* Back in the handler: an exception goes to the except clauses; /api/transcribe
\* answers with the text; score-audio checks the transcript and goes on to score.
AfterTranscribe(c) ==
    /\ task[c].pc = "t_ret"
    /\ LET rec == Returned(task[c])
       IN  SetTask(c,
             CASE rec.exc # "none" ->
                    Raise(rec, rec.exc, rec.reason, 0)
               [] rec.exc = "none" /\ rec.kind = "transcribe" ->
                    [ rec EXCEPT !.pc = "respond", !.status = 200,
                                 !.body = ResponseBody(rec.kind) ]
               [] OTHER ->
                    IF MeaningfulTranscript(rec.textlen)
                    THEN [ rec EXCEPT !.pc = "sp_avail" ]
                    ELSE Raise(rec, "HTTPException", "no_speech", 400))
    /\ UNCHANGED << cacheVars, envVars, services_imported, files, loop, histVars >>

(***************************************************************************)
(* Request arrival                                                         *)
(***************************************************************************)
\* A request is taken by the first free worker.
CanArrive(r) ==
    /\ Serving
    /\ task[r].pc = "idle"
    /\ \A q \in Req : q < r => task[q].pc # "idle"

\* pydantic: essay: str = Field(..., min_length=50)
WritingRequest(n) == n >= MinEssayLen
\* pydantic: answer_text: str = Field(..., min_length=10)
SpeakingTextRequest(n) == n >= MinAnswerLen

\* A body that fails validation is answered 422 before the handler is called.
Rejected(rec) == [ rec EXCEPT !.pc = "respond", !.status = 422, !.body = { "detail" } ]

ScoreWriting(r) ==
    /\ CanArrive(r)
    /\ \E n \in { MinEssayLen - 1, MinEssayLen } :
         LET rec == [ IdleTask EXCEPT !.kind = "writing", !.textlen = n ]
         IN  SetTask(r, IF WritingRequest(n) THEN [ rec EXCEPT !.pc = "w_check" ]
                        ELSE Rejected(rec))
    /\ UNCHANGED << cacheVars, envVars, services_imported, files, loop, histVars >>

ScoreSpeakingText(r) ==
    /\ CanArrive(r)
    /\ \E n \in { MinAnswerLen - 1, MinAnswerLen } :
         LET rec == [ IdleTask EXCEPT !.kind = "score_text", !.textlen = n ]
         IN  SetTask(r, IF SpeakingTextRequest(n) THEN [ rec EXCEPT !.pc = "sp_avail" ]
                        ELSE Rejected(rec))
    /\ UNCHANGED << cacheVars, envVars, services_imported, files, loop, histVars >>

\* score_speaking_audio / transcribe_audio up to `await audio.read()`: the
\* ENABLE_WHISPER check and the import inside the try.  When the import raises,
\* evaluating `except AudioValidationError` raises UnboundLocalError, which
\* leaves the handler.
AudioEndpoint(r, kind) ==
    /\ CanArrive(r)
    /\ loop = 0
    /\ LET rec == [ IdleTask EXCEPT !.kind = kind ]
       IN  IF ~ENABLE_WHISPER
           THEN /\ SetTask(r, [ rec EXCEPT !.pc = "respond", !.status = 503,
                                           !.body = { "detail" } ])
                /\ UNCHANGED services_imported
           ELSE \E o \in ImportSpeechService :
                  /\ services_imported' = o[2]
                  /\ SetTask(r, IF o[1] = "ok"
                                THEN [ rec EXCEPT !.pc = "a_read" ]
                                ELSE Raise(rec, "UnboundLocalError", "import", 0))
    /\ UNCHANGED << cacheVars, envVars, files, loop, histVars >>

ScoreSpeakingAudio(r) == AudioEndpoint(r, "score_audio")
TranscribeEndpoint(r) == AudioEndpoint(r, "transcribe")

\* Uploads a client may send.
FileNames ==
    { << "a", ".", "w", "a", "v" >>, << "a", ".", "M", "P", "3" >>,
      << "a", ".", "x", "y", "z" >>, << "a" >>, << >> }
Sizes == { 0, max_size_bytes, max_size_bytes + 1 }

\* `audio_bytes = await audio.read()` returns and the handler runs on; in
\* score-audio an empty upload is answered 400 at once.
AudioRead(r) ==
    /\ task[r].pc = "a_read"
    /\ loop = 0
    /\ \E f \in FileNames, n \in Sizes :
         LET rec == [ task[r] EXCEPT !.filename = f, !.size = n ]
         IN  SetTask(r, IF rec.kind = "score_audio" /\ n = 0
                        THEN Raise(rec, "HTTPException", "empty_upload", 400)
                        ELSE [ rec EXCEPT !.pc = "t_ext" ])
    /\ loop' = r
    /\ UNCHANGED << cacheVars, envVars, services_imported, files, histVars >>

\* GET /health: whisper_status from a guarded get_whisper_info(); the writing
\* and speaking flags are the literals True.
Health(r) ==
    /\ CanArrive(r)
    /\ \E o \in ImportSpeechService :
         /\ services_imported' = o[2]
         /\ SetTask(r, [ IdleTask EXCEPT !.kind = "health", !.pc = "respond",
                                         !.status = 200,
                                         !.body = ResponseBody("health"),
                                         !.health_speaking = TRUE,
                                         !.health_whisper =
                                             (ENABLE_WHISPER /\ o[1] = "ok") ])
    /\ UNCHANGED << cacheVars, envVars, files, loop, histVars >>

(***************************************************************************)
(* Classifier arithmetic: softmax, argmax, argsort                         *)
(*                                                                         *)
(* Bands are counted in tenths (5.5 is 55), probabilities in units of       *)
(* 1 / ProbScale, logits are small integers.                               *)
(***************************************************************************)
\* Logit vectors the classifiers are run on: entries 0 .. MaxLogit.
MaxLogit == 3

WRITING_BAND_CLASSES == << 35, 40, 45, 50, 55, 60, 65, 70, 75, 80, 85, 90 >>
WritingClasses == 0 .. (Len(WRITING_BAND_CLASSES) - 1)
WRITING_IDX_TO_BAND == [ i \in WritingClasses |-> WRITING_BAND_CLASSES[i + 1] ]

CEFR_LABELS == << "A1", "A2", "B1", "B2", "C1", "C2" >>
CefrClasses == 0 .. (Len(CEFR_LABELS) - 1)
ID2LABEL == [ i \in CefrClasses |-> CEFR_LABELS[i + 1] ]
CEFR_TO_IELTS == [ A1 |-> 25, A2 |-> 35, B1 |-> 50, B2 |-> 65, C1 |-> 75, C2 |-> 85 ]

\* Resolution of a probability: float(probs[idx]) is counted in 1 / ProbScale.
ProbScale == 100000

\* np.exp(-d) for d = 0, 1, 2, ... in units of 1 / 10000; 0 where it underflows.
ExpTable == << 10000, 3679, 1353, 498, 183, 67, 25, 9, 3, 1 >>
Exp(d) == IF d < Len(ExpTable) THEN ExpTable[d + 1] ELSE 0

\* np.max(x)
MaxOf(x) == CHOOSE m \in { x[i] : i \in DOMAIN x } : \A i \in DOMAIN x : x[i] <= m

\* exp_logits = np.exp(logits - np.max(logits)); probs = exp_logits / exp_logits.sum()
Softmax(logits) ==
    LET m == MaxOf(logits)
        exp_logits == [ i \in DOMAIN logits |-> Exp(m - logits[i]) ]
        total == SumOver(exp_logits, DOMAIN logits)
    IN  [ i \in DOMAIN logits |-> (exp_logits[i] * ProbScale) \div total ]

\* A faulty variant of Argmax: the last of the maximal entries.
ArgmaxLast(x) ==
    CHOOSE i \in DOMAIN x : x[i] = MaxOf(x) /\ \A j \in DOMAIN x : j > i => x[j] < x[i]

\* np.argmax(x): the first of the maximal entries
Argmax(x) ==
    CHOOSE i \in DOMAIN x : x[i] = MaxOf(x) /\ \A j \in DOMAIN x : j < i => x[j] < x[i]

\* A faulty variant of Argsort: the reversal forgotten, smallest entries first.
RECURSIVE ArgsortAscending(_, _, _)
ArgsortAscending(x, S, k) ==
    IF k = 0 \/ S = {} THEN { << >> }
    ELSE UNION { { << i >> \o rest : rest \in ArgsortAscending(x, S \ {i}, k - 1) } :
                 i \in { j \in S : \A l \in S : x[j] <= x[l] } }

\* np.argsort(probs)[::-1][:k], torch.argsort(probs, descending=True)[:k]: the
\* sorts are not stable, so equal entries come in any order.  The set of the
\* index sequences a sort may give, over the indices S.
RECURSIVE Argsort(_, _, _)
Argsort(x, S, k) ==
    IF k = 0 \/ S = {} THEN { << >> }
    ELSE UNION { { << i >> \o rest : rest \in Argsort(x, S \ {i}, k - 1) } :
                 i \in { j \in S : \A l \in S : x[l] <= x[j] } }

top_k == 3

\* Of the 12 writing logits at most MaxHot are above 0: as many as are listed.
MaxHot == top_k

\* round(prob, 4): to the nearest 1 / 10000, halves to the even neighbour
Round4(prob) ==
    LET unit == ProbScale \div 10000
        q == prob \div unit
        r == prob % unit
    IN  IF 2 * r > unit \/ (2 * r = unit /\ q % 2 = 1) THEN q + 1 ELSE q

(***************************************************************************)
(* predict_writing_band, predict_cefr_and_band as functions of the logits  *)
(***************************************************************************)
\* app.py: band and confidence come from np.argmax, top_predictions from the
\* argsort (top_indices: the order the sort gave).
predict_writing_band(logits, top_indices) ==
    LET probs == Softmax(logits)
        pred_idx == Argmax(probs)
    IN  [ band |-> WRITING_IDX_TO_BAND[pred_idx],
          confidence |-> probs[pred_idx],
          top_predictions |->
              [ n \in 1 .. Len(top_indices) |->
                  [ band |-> WRITING_IDX_TO_BAND[top_indices[n]],
                    probability |-> probs[top_indices[n]] ] ] ]

\* services/writing_service.py: IDX_TO_BAND is read from band_mapping.json of
\* the model directory, which lists the 12 band classes of the trained model.
IDX_TO_BAND == WRITING_IDX_TO_BAND

\* services/writing_service.py: band and confidence come from top_indices[0].
writing_service_predict_writing_band(logits, top_indices) ==
    LET probabilities == Softmax(logits)
        best_idx == top_indices[1]
    IN  [ band |-> IDX_TO_BAND[best_idx],
          confidence |-> Round4(probabilities[best_idx]),
          top_predictions |->
              [ n \in 1 .. Len(top_indices) |->
                  [ band |-> IDX_TO_BAND[top_indices[n]],
                    probability |-> Round4(probabilities[top_indices[n]]) ] ] ]

\* app.py: pred_id = argmax(logits); cefr = ID2LABEL[pred_id];
\* band = CEFR_TO_IELTS.get(cefr, 0.0)
predict_cefr_and_band(logits) ==
    LET pred_id == Argmax(logits)
        cefr == ID2LABEL[pred_id]
    IN  << cefr, DictGet(CEFR_TO_IELTS, cefr, 0) >>

\* services/speaking_service.py: its own CEFR_LABELS, ID2LABEL, CEFR_TO_IELTS
speaking_service_CEFR_LABELS == << "A1", "A2", "B1", "B2", "C1", "C2" >>
speaking_service_ID2LABEL ==
    [ i \in 0 .. (Len(speaking_service_CEFR_LABELS) - 1) |->
        speaking_service_CEFR_LABELS[i + 1] ]
speaking_service_CEFR_TO_IELTS ==
    [ A1 |-> 25, A2 |-> 35, B1 |-> 50, B2 |-> 65, C1 |-> 75, C2 |-> 85 ]

speaking_service_predict_cefr_and_band(logits) ==
    LET pred_id == Argmax(logits)
        cefr == speaking_service_ID2LABEL[pred_id]
    IN  << cefr, DictGet(speaking_service_CEFR_TO_IELTS, cefr, 0) >>

(***************************************************************************)
(* Feedback builders                                                       *)
(***************************************************************************)
\* A feedback dict: for each key the text of bundle number `bucket`.
Bundle(keys, bucket) == [ k \in keys |-> bucket ]

WritingCriteria == { "task_response", "coherence_cohesion", "vocabulary", "grammar" }
SpeakingCriteria == { "fluency_coherence", "vocabulary", "grammar", "pronunciation" }

\* A faulty variant of build_writing_feedback: `<=` for `<`.
build_writing_feedback_le(band) ==
    IF band <= 50 THEN Bundle(WritingCriteria, 0)
    ELSE IF band <= 55 THEN Bundle(WritingCriteria, 1)
    ELSE IF band <= 65 THEN Bundle(WritingCriteria, 2)
    ELSE IF band <= 75 THEN Bundle(WritingCriteria, 3)
    ELSE Bundle(WritingCriteria, 4)

\* app.py
build_writing_feedback(band) ==
    IF band < 50 THEN Bundle(WritingCriteria, 0)
    ELSE IF band < 55 THEN Bundle(WritingCriteria, 1)
    ELSE IF band < 65 THEN Bundle(WritingCriteria, 2)
    ELSE IF band < 75 THEN Bundle(WritingCriteria, 3)
    ELSE Bundle(WritingCriteria, 4)

\* services/writing_service.py: other thresholds, and two more keys
writing_service_build_writing_feedback(band) ==
    LET keys == WritingCriteria \cup { "level", "suggestion" }
    IN  IF band < 50 THEN Bundle(keys, 0)
        ELSE IF band < 60 THEN Bundle(keys, 1)
        ELSE IF band < 70 THEN Bundle(keys, 2)
        ELSE IF band < 80 THEN Bundle(keys, 3)
        ELSE Bundle(keys, 4)

\* A faulty variant of build_speaking_feedback: the bundle chosen by the level.
build_speaking_feedback_by_cefr(cefr, band) ==
    IF cefr \in { "A1", "A2", "B1" } THEN Bundle(SpeakingCriteria, 0)
    ELSE IF cefr \in { "B2" } THEN Bundle(SpeakingCriteria, 1)
    ELSE Bundle(SpeakingCriteria, 2)

\* app.py
build_speaking_feedback(cefr, band) ==
    IF band < 50 THEN Bundle(SpeakingCriteria, 0)
    ELSE IF band < 65 THEN Bundle(SpeakingCriteria, 1)
    ELSE Bundle(SpeakingCriteria, 2)

\* services/speaking_service.py
speaking_service_build_speaking_feedback(cefr, band) ==
    IF band < 50 THEN Bundle(SpeakingCriteria, 0)
    ELSE IF band < 65 THEN Bundle(SpeakingCriteria, 1)
    ELSE Bundle(SpeakingCriteria, 2)

\* app.py score_writing: the body of the 200 response
score_writing(logits, top_indices) ==
    LET result == predict_writing_band(logits, top_indices)
        band == result.band
    IN  [ overall_band |-> band,
          confidence |-> result.confidence,
          top_predictions |-> result.top_predictions,
          feedback |-> build_writing_feedback(band) ]

\* services/writing_service.py score_writing
writing_service_score_writing(logits, top_indices) ==
    LET prediction == writing_service_predict_writing_band(logits, top_indices)
        band == prediction.band
    IN  [ overall_band |-> band,
          confidence |-> prediction.confidence,
          top_predictions |-> prediction.top_predictions,
          feedback |-> writing_service_build_writing_feedback(band) ]

(***************************************************************************)
(* The scoring functions applied to their arguments                        *)
(***************************************************************************)
NoCalc == [ fn |-> "none", arg |-> << >>, top_indices |-> << >>, out |-> << >> ]

Arg(kind, x) == [ fn |-> kind, arg |-> x, top_indices |-> << >>, out |-> << >> ]

\* Vectors over `classes` with at most MaxHot entries above 0.
HotVectors(classes) ==
    UNION { { [ i \in classes |-> IF i \in H THEN h[i] ELSE 0 ] :
                h \in [ H -> 1 .. MaxLogit ] } :
            H \in { S \in SUBSET classes : Cardinality(S) <= MaxHot } }

WritingLogits == HotVectors(WritingClasses)
CefrLogits == [ CefrClasses -> 0 .. MaxLogit ]

\* Bands the feedback builders are asked about, in tenths: 0.0 .. MaxBand / 10.
MaxBand == 100
Bands == 0 .. MaxBand
Levels == { CEFR_LABELS[n] : n \in 1 .. Len(CEFR_LABELS) }

restVars == << cacheVars, envVars, services_imported, files, loop, task, histVars >>

\* app.py predict_writing_band and score_writing, on one forward pass
CallPredictWritingBand ==
    /\ calc.fn = "writing_logits"
    /\ \E top_indices \in Argsort(Softmax(calc.arg), WritingClasses, top_k) :
         \/ calc' = [ calc EXCEPT !.fn = "predict_writing_band",
                                  !.top_indices = top_indices,
                                  !.out = predict_writing_band(calc.arg, top_indices) ]
         \/ calc' = [ calc EXCEPT !.fn = "score_writing",
                                  !.top_indices = top_indices,
                                  !.out = score_writing(calc.arg, top_indices) ]
    /\ UNCHANGED restVars

\* services/writing_service.py predict_writing_band and score_writing
CallWritingService ==
    /\ calc.fn = "writing_logits"
    /\ \E top_indices \in Argsort(Softmax(calc.arg), WritingClasses, top_k) :
         \/ calc' = [ calc EXCEPT
                !.fn = "writing_service.predict_writing_band",
                !.top_indices = top_indices,
                !.out = writing_service_predict_writing_band(calc.arg, top_indices) ]
         \/ calc' = [ calc EXCEPT
                !.fn = "writing_service.score_writing",
                !.top_indices = top_indices,
                !.out = writing_service_score_writing(calc.arg, top_indices) ]
    /\ UNCHANGED restVars

CallPredictCefrAndBand ==
    /\ calc.fn = "cefr_logits"
    /\ \/ calc' = [ calc EXCEPT !.fn = "predict_cefr_and_band",
                                 !.out = predict_cefr_and_band(calc.arg) ]
       \/ calc' = [ calc EXCEPT
              !.fn = "speaking_service.predict_cefr_and_band",
              !.out = speaking_service_predict_cefr_and_band(calc.arg) ]
    /\ UNCHANGED restVars

CallBuildWritingFeedback ==
    /\ calc.fn = "band"
    /\ \/ calc' = [ calc EXCEPT !.fn = "build_writing_feedback",
                                 !.out = build_writing_feedback(calc.arg) ]
       \/ calc' = [ calc EXCEPT
              !.fn = "writing_service.build_writing_feedback",
              !.out = writing_service_build_writing_feedback(calc.arg) ]
    /\ UNCHANGED restVars

CallBuildSpeakingFeedback ==
    /\ calc.fn = "cefr_band"
    /\ \/ calc' = [ calc EXCEPT
              !.fn = "build_speaking_feedback",
              !.out = build_speaking_feedback(calc.arg[1], calc.arg[2]) ]
       \/ calc' = [ calc EXCEPT
              !.fn = "speaking_service.build_speaking_feedback",
              !.out = speaking_service_build_speaking_feedback(calc.arg[1], calc.arg[2]) ]
    /\ UNCHANGED restVars

\* app.py score_speaking_audio: transcribe_audio_bytes(..., include_segments=False)
\* and the transcript_info of the 200 response
score_speaking_audio_transcript_info(result_segments) ==
    LET result == transcribe_audio_result(FALSE, result_segments)
    IN  [ confidence |-> result.confidence ]

\* transcribe_audio on an engine result, called with either include_segments
CallTranscribeAudio ==
    /\ calc.fn = "engine_result"
    /\ \E include_segments \in BOOLEAN :
         calc' = [ calc EXCEPT
                !.fn = "transcribe_audio",
                !.arg = << include_segments, calc.arg >>,
                !.out = transcribe_audio_result(include_segments, calc.arg) ]
    /\ UNCHANGED restVars

\* score_speaking_audio on an engine result
CallScoreSpeakingAudio ==
    /\ calc.fn = "engine_result"
    /\ calc' = [ calc EXCEPT
            !.fn = "score_speaking_audio",
            !.out = [ transcript_info |->
                        score_speaking_audio_transcript_info(calc.arg) ] ]
    /\ UNCHANGED restVars

(***************************************************************************)
(* Specifications                                                          *)
(***************************************************************************)
InitState ==
    /\ writing_model = None /\ writing_tokenizer = None
    /\ speaking_model = None /\ speaking_tokenizer = None
    /\ speaking_available = "None"
    /\ whisper_service = "None"
    /\ wm_model = None
    /\ wm_model_size = WHISPER_MODEL_SIZE
    /\ wm_loaded_size = "none"
    /\ speaking_dir \in BOOLEAN
    /\ whisper_installed \in BOOLEAN
    /\ services_imported = FALSE
    /\ files = {}
    /\ loop = 0
    /\ nLoads = [ writing |-> 0, speaking |-> 0, whisper |-> 0 ]
    /\ load_failed = [ writing |-> FALSE, speaking |-> FALSE, whisper |-> FALSE ]

\* The application under an ASGI server: the lifespan runs before any request.
Init ==
    /\ InitState
    /\ task = [ c \in Callers |-> IF c = Lifespan THEN LifespanTask ELSE IdleTask ]
    /\ calc = NoCalc

\* The application served without the lifespan protocol (lifespan off, or a
\* test client that does not enter it): handlers meet the caches as the class
\* bodies leave them.
InitNoPreload ==
    /\ InitState
    /\ speaking_dir /\ whisper_installed
    /\ task = [ c \in Callers |-> IF c = Lifespan THEN ServingTask ELSE IdleTask ]
    /\ calc = NoCalc

\* The scoring functions called on their own: one argument per behaviour.
InitScoring ==
    /\ InitState
    /\ speaking_dir /\ whisper_installed
    /\ task = [ c \in Callers |-> IdleTask ]
    /\ calc \in { Arg("writing_logits", l) : l \in WritingLogits }
              \cup { Arg("cefr_logits", l) : l \in CefrLogits }
              \cup { Arg("band", b) : b \in Bands }
              \cup { Arg("cefr_band", << c, b >>) : c \in Levels, b \in Bands }
              \cup { Arg("engine_result", segs) : segs \in EngineSegments }

\* Steps of ModelManager.get_writing_model, by the lifespan or a request.
StepWriting(c) ==
    \/ GetWritingModel(c)
    \/ LoadWritingTokenizer(c)
    \/ LoadWritingModel(c)
    \/ ReturnWritingModel(c)

\* Steps of ModelManager.get_speaking_model, by the lifespan or a request.
StepSpeaking(c) ==
    \/ GetSpeakingModel(c)
    \/ LoadSpeakingTokenizer(c)
    \/ LoadSpeakingModel(c)
    \/ ReturnSpeakingModel(c)

\* Steps of WhisperModelManager.model, by the lifespan or a request.
StepWhisper(c) ==
    \/ WhisperModel(c)
    \/ WhisperLoadModel(c)

\* POST /api/writing/score
HandleWriting(r) ==
    \/ ScoreWriting(r)
    \/ PredictWritingBand(r)
    \/ Respond(r)

\* POST /api/speaking/score-text, and the scoring half of score-audio
HandleSpeaking(r) ==
    \/ ScoreSpeakingText(r)
    \/ PredictCefrAndBand(r)

\* POST /api/speaking/score-audio, POST /api/transcribe, GET /health
HandleAudio(r) ==
    \/ ScoreSpeakingAudio(r)
    \/ TranscribeEndpoint(r)
    \/ Health(r)
    \/ AudioRead(r)
    \/ TranscribeAudioBytes(r)
    \/ TempAudioFileEnter(r)
    \/ TranscribeValidate(r)
    \/ TranscribeDuration(r)
    \/ TranscribeRun(r)
    \/ TempAudioFileExit(r)
    \/ AfterTranscribe(r)

Startup ==
    \/ StepWriting(Lifespan)
    \/ StepSpeaking(Lifespan)
    \/ StepWhisper(Lifespan)
    \/ LifespanSpeaking
    \/ LifespanWhisper
    \/ LifespanReady

Serve ==
    \E r \in Req :
        \/ StepWriting(r) \/ StepSpeaking(r) \/ StepWhisper(r)
        \/ HandleWriting(r) \/ HandleSpeaking(r) \/ HandleAudio(r)

\* Traffic on POST /api/writing/score only.
ServeWriting == \E r \in Req : StepWriting(r) \/ HandleWriting(r)

Next == (Startup \/ Serve) /\ UNCHANGED calc

\* The application under an ASGI server that runs the lifespan.
Spec == Init /\ [][Next]_vars

\* The application without the lifespan preload, under writing requests: the
\* first call of get_writing_model is made by request threads.
SpecNoPreload == InitNoPreload /\ [][ServeWriting /\ UNCHANGED calc]_vars

Scoring ==
    \/ CallPredictWritingBand
    \/ CallWritingService
    \/ CallPredictCefrAndBand
    \/ CallBuildWritingFeedback
    \/ CallBuildSpeakingFeedback
    \/ CallTranscribeAudio
    \/ CallScoreSpeakingAudio

\* Traffic on POST /api/transcribe only.
ServeTranscribe ==
    \E r \in Req :
        \/ StepWhisper(r)
        \/ TranscribeEndpoint(r)
        \/ AudioRead(r)
        \/ TranscribeAudioBytes(r)
        \/ TempAudioFileEnter(r)
        \/ TranscribeValidate(r)
        \/ TranscribeDuration(r)
        \/ TranscribeRun(r)
        \/ TempAudioFileExit(r)
        \/ AfterTranscribe(r)
        \/ Respond(r)

\* The application started either way, with or without the lifespan preload,
\* under transcription requests: without the preload, requests are the first
\* to read whisper_manager.model.
InitLazy == Init \/ InitNoPreload
NextLazy == (Startup \/ ServeTranscribe) /\ UNCHANGED calc
SpecLazy == InitLazy /\ [][NextLazy]_vars

\* speech_service.py used as a module by one caller: no application, every
\* handle empty, the configured model size.
InitManager ==
    /\ InitState
    /\ speaking_dir /\ whisper_installed
    /\ task = [ c \in Callers |-> IdleTask ]
    /\ calc = NoCalc

\* Calls of preload_model and change_model_size, one after the other.
UseManager ==
    \E c \in Req :
        \/ PreloadModel(c)
        \/ StepWhisper(c)
        \/ \E size \in SizeArgs : ChangeModelSize(c, size)

NextManager == UseManager /\ UNCHANGED calc

\* whisper_manager under any sequence of preload_model and change_model_size.
SpecManager == InitManager /\ [][NextManager]_vars

\* The scoring functions as pure functions of logits and bands.
SpecScoring == InitScoring /\ [][Scoring]_vars

(***************************************************************************)
(* Properties                                                              *)
(***************************************************************************)
\* Positions inside the with-block of transcribe_audio_bytes.
InWithBlock == { "t_validate", "t_duration", "wm_check", "wm_load",
                 "t_transcribe", "t_finally" }

\* The filename carries an extension, and it is not a supported one.
BadExtension(filename) ==
    LET sfx == Lower(PathSuffix(OrElse(filename, AudioDotWav)))
    IN  sfx # <<>> /\ sfx \notin SUPPORTED_AUDIO_FORMATS

\* transcribe_audio_bytes has returned or raised in task r.
CallOver(r) == task[r].pc = "t_ret" /\ task[r].called

\* Creating or writing the temporary file raised an OS error.
WriteFailed(t) == t.os_fault /\ ~t.temp_path

\* C1: on every exit path of transcribe_audio_bytes (success, validation error,
\* engine error, a failing write to the temporary file, a failing unlink), no
\* temporary file created by the call exists once the call is over.
C1_NoTempFileAfterCall ==
    \A r \in Req : r \in files => task[r].pc \in InWithBlock

\* C2: concurrent first calls for a model kind load it at most once, and all
\* callers receive the same handle.
C2_LoadAtMostOnce ==
    /\ nLoads.writing <= 1
    /\ nLoads.speaking <= 1
    /\ nLoads.whisper <= 1
    /\ \A r1, r2 \in Req :
         task[r1].pc = "w_infer" /\ task[r2].pc = "w_infer"
             => task[r1].got = task[r2].got

\* C3: transcribe_audio_bytes reports the reason of the earliest violated step
\* of the order (1) non-empty, (2) extension supported, (3) at most 25 MiB,
\* (4) at most 300 s; a 0-byte payload with an unsupported extension is
\* rejected as empty.
C3_EarliestReasonInSpecOrder ==
    \A r \in Req :
        CallOver(r) /\ ~WriteFailed(task[r]) =>
            LET t == task[r]
                expected ==
                    CASE t.size = 0 -> "empty"
                      [] t.size # 0 /\ BadExtension(t.filename) -> "unsupported"
                      [] t.size # 0 /\ ~BadExtension(t.filename) /\ t.size > max_size_bytes
                            -> "too_large"
                      [] OTHER -> IF t.decode = "ok"
                                     /\ t.duration > MAX_AUDIO_DURATION_SECONDS
                                  THEN "too_long" ELSE "none"
            IN  expected # "none" =>
                    t.exc = "AudioValidationError" /\ t.reason = expected

\* One of the four rejected inputs of transcribe_audio_bytes.
InvalidAudio(t) ==
    \/ t.size = 0
    \/ t.size # IdleTask.size /\ BadExtension(t.filename)
    \/ t.size > max_size_bytes
    \/ t.decode = "ok" /\ t.duration > MAX_AUDIO_DURATION_SECONDS

C5_CachedHandlesReused ==
    /\ [][ /\ writing_model # None =>
                /\ writing_model' = writing_model
                /\ writing_tokenizer' = writing_tokenizer
                /\ nLoads'.writing = nLoads.writing
           /\ speaking_model # None =>
                /\ speaking_model' = speaking_model
                /\ speaking_tokenizer' = speaking_tokenizer
                /\ nLoads'.speaking = nLoads.speaking ]_vars
    /\ [](\A r \in Req :
            /\ task[r].pc = "w_infer" =>
                  /\ task[r].got = << writing_model, writing_tokenizer >>
                  /\ task[r].got = << Lifespan, Lifespan >>
                  /\ ~task[r].attempted
            /\ task[r].pc = "sp_infer" =>
                  /\ task[r].got = << speaking_model, speaking_tokenizer >>
                  /\ task[r].got = << Lifespan, Lifespan >>
                  /\ ~task[r].attempted)

\* C5 witness: two requests hold the handles the lifespan loaded, one for each
\* classifier.
C5_Witness ==
    \E r1, r2 \in Req :
        /\ task[r1].pc = "w_infer" /\ task[r1].got = << Lifespan, Lifespan >>
        /\ task[r2].pc = "sp_infer" /\ task[r2].got = << Lifespan, Lifespan >>
        /\ nLoads.writing = 1 /\ nLoads.speaking = 1

\* C6: once a load of the writing or speaking model has failed, every later get
\* call for that kind fails without looking at the disk and without attempting
\* the load again.
C6_FailureCached ==
    \A r \in Req :
        task[r].sawFailed =>
            /\ ~task[r].attempted
            /\ ~task[r].checkedDisk
            /\ task[r].pc \notin { "w_tok", "w_model", "w_ret", "w_infer",
                                   "sp_tok", "sp_model", "sp_ret", "sp_infer" }

\* C7: when the writing model cannot be loaded at startup, startup aborts and
\* no request is ever served; whenever a request handler runs, the writing
\* model and tokenizer are loaded.
C7_WritingLoadedOrNoTraffic ==
    /\ \A r \in Req :
         task[r].pc # "idle" =>
             /\ writing_model # None /\ writing_tokenizer # None
             /\ Serving
    /\ load_failed.writing =>
         /\ task[Lifespan].pc = "aborted"
         /\ \A r \in Req : task[r].pc = "idle"

\* C7 witness: the writing load failed, startup is aborted, nothing is served.
C7_Witness ==
    /\ load_failed.writing
    /\ task[Lifespan].pc = "aborted"
    /\ task[Lifespan].reason = "load_writing"
    /\ writing_model = None

\* C8: a speaking model that fails to load at startup (directory absent, or
\* present but the load raising) does not abort startup, and GET /health then
\* reports the speaking model as unavailable.
C8_SpeakingFailureNonFatal ==
    /\ ~(task[Lifespan].pc = "aborted" /\ task[Lifespan].reason = "load_speaking")
    /\ \A r \in Req :
         /\ task[r].kind = "health" /\ task[r].pc = "respond"
         /\ speaking_model = None
         => ~task[r].health_speaking

\* C9: with the speaking model absent on disk, score-text and score-audio
\* answer ModelUnavailable with 503 or 400, never with 500.
C9_UnavailableIs503Or400 ==
    \A r \in Req :
        /\ task[r].pc = "respond"
        /\ task[r].kind \in { "score_text", "score_audio" }
        /\ task[r].exc = "FileNotFoundError"
        => task[r].status \in { 503, 400 }

\* The text the request would be scored on is below the minimum length.
TooShort(t) ==
    \/ t.kind = "writing" /\ t.textlen < MinEssayLen
    \/ t.kind = "score_text" /\ t.textlen < MinAnswerLen
    \/ t.kind = "score_audio" /\ t.textlen # IdleTask.textlen
                              /\ t.textlen < MinTranscriptLen

\* C10: an essay shorter than 50 characters, an answer shorter than 10 and an
\* ASR transcript shorter than 10 are rejected before any classifier is
\* fetched or invoked for the request.
C10_ShortTextNeverScored ==
    \A r \in Req :
        TooShort(task[r]) =>
            /\ ~task[r].fetched /\ ~task[r].invoked
            /\ task[r].pc \in { "t_finally", "t_ret", "respond" }
            /\ task[r].pc = "respond" => task[r].status \in { 400, 422 }

\* C10 witness: score-audio answers 400 for a transcript of 9 characters
\* without having asked for the speaking model.
C10_Witness ==
    \E r \in Req :
        /\ task[r].kind = "score_audio" /\ task[r].pc = "respond"
        /\ task[r].textlen = MinTranscriptLen - 1
        /\ task[r].status = 400 /\ task[r].reason = "no_speech"
        /\ ~task[r].fetched

\* A result of predict_writing_band, of app.py or of the writing service.
WritingPredicted ==
    calc.fn \in { "predict_writing_band", "writing_service.predict_writing_band" }

\* C11: for every logit vector over the 12 writing classes, ties at the maximum
\* included, the band and confidence predict_writing_band returns are the band
\* and probability of the first entry of top_predictions.
C11_BandIsFirstTopPrediction ==
    WritingPredicted =>
        /\ calc.out.band = calc.out.top_predictions[1].band
        /\ calc.out.confidence = calc.out.top_predictions[1].probability

\* The probability predict_writing_band reports for each class.
Reported ==
    LET probs == Softmax(calc.arg)
    IN  [ i \in WritingClasses |->
            IF calc.fn = "predict_writing_band" THEN probs[i] ELSE Round4(probs[i]) ]

\* top_predictions lists 3 pairwise distinct classes with their bands and
\* probabilities, and no class left out has a higher probability.
TopThreeListed ==
    LET top == calc.out.top_predictions
        idx == calc.top_indices
        reported == Reported
    IN  /\ Len(top) = 3 /\ Len(idx) = 3
        /\ Cardinality({ idx[n] : n \in 1 .. 3 }) = 3
        /\ \A n \in 1 .. 3 :
             /\ top[n].band = IF calc.fn = "predict_writing_band"
                              THEN WRITING_IDX_TO_BAND[idx[n]]
                              ELSE IDX_TO_BAND[idx[n]]
             /\ top[n].probability = reported[idx[n]]
        /\ \A i \in WritingClasses \ { idx[n] : n \in 1 .. 3 } :
             \A n \in 1 .. 3 : reported[i] <= top[n].probability

\* C12 (as stated): top_predictions has exactly 3 entries for 3 pairwise
\* distinct classes, the 3 classes of highest probability, and their
\* probabilities are sorted strictly descending.
C12_TopThreeStrictlyDescending ==
    WritingPredicted =>
        /\ TopThreeListed
        /\ \A n \in 1 .. 2 :
             calc.out.top_predictions[n].probability
                 > calc.out.top_predictions[n + 1].probability

\* C12 (amended): top_predictions has exactly 3 entries for 3 pairwise distinct
\* classes, the 3 classes of highest probability, sorted descending by
\* probability; classes of equal probability follow each other in any order.
C12_TopThreeDescending ==
    WritingPredicted =>
        /\ TopThreeListed
        /\ \A n \in 1 .. 2 :
             calc.out.top_predictions[n].probability
                 >= calc.out.top_predictions[n + 1].probability

\* C12 witness: a result whose first two entries have different probabilities
\* and whose last two have the same, the fourth class being as probable.
C12_Witness ==
    /\ calc.fn = "predict_writing_band"
    /\ calc.out.top_predictions[1].probability > calc.out.top_predictions[2].probability
    /\ calc.out.top_predictions[2].probability = calc.out.top_predictions[3].probability
    /\ \E i \in WritingClasses :
         /\ i \notin { calc.top_indices[n] : n \in 1 .. 3 }
         /\ Softmax(calc.arg)[i] = calc.out.top_predictions[3].probability

\* The number of the bundle a feedback dict carries, when all its texts are of
\* one bundle; -1 otherwise.
BucketOf(feedback) ==
    LET buckets == { feedback[k] : k \in DOMAIN feedback }
    IN  IF Cardinality(buckets) = 1 THEN CHOOSE b \in buckets : TRUE ELSE -1

\* How many of the thresholds (in tenths of a band) the band has reached.
Reached(thresholds, band) ==
    Cardinality({ n \in 1 .. Len(thresholds) : thresholds[n] <= band })

\* C13: build_writing_feedback of app.py returns the bundle of the first
\* threshold of 5.0, 5.5, 6.5, 7.5 the band is strictly below, else the last
\* one: the bundle number never decreases as the band grows over the 12 band
\* classes, 4.9/5.4/6.4/7.4/8.0 give bundles 0/1/2/3/4, and a band equal to a
\* threshold falls into the higher bundle.
C13_WritingFeedbackBuckets ==
    calc.fn = "build_writing_feedback" =>
        LET band == calc.arg
            bucket == BucketOf(calc.out)
        IN  /\ bucket = Reached(<< 50, 55, 65, 75 >>, band)
            /\ band = 49 => bucket = 0
            /\ band = 54 => bucket = 1
            /\ band = 64 => bucket = 2
            /\ band = 74 => bucket = 3
            /\ band = 80 => bucket = 4
            /\ band = 50 => bucket = 1
            /\ band = 55 => bucket = 2
            /\ band = 65 => bucket = 3
            /\ band = 75 => bucket = 4
            /\ \A i \in WritingClasses :
                 WRITING_IDX_TO_BAND[i] <= band
                     => BucketOf(build_writing_feedback(WRITING_IDX_TO_BAND[i])) <= bucket

\* C13 witness: the band 6.5, equal to a threshold, was given bundle 3.
C13_Witness ==
    /\ calc.fn = "build_writing_feedback"
    /\ calc.arg = 65
    /\ BucketOf(calc.out) = 3

\* A result of build_speaking_feedback, of app.py or of the speaking service.
SpeakingFeedbackBuilt ==
    calc.fn \in { "build_speaking_feedback", "speaking_service.build_speaking_feedback" }

\* C14: build_speaking_feedback selects bundle 0 for band < 5.0, bundle 1 for
\* 5.0 <= band < 6.5 and bundle 2 otherwise, whatever the cefr argument; with
\* the band of CEFR_TO_IELTS, A1 and A2 get bundle 0, B1 bundle 1, and B2, C1
\* and C2 bundle 2.
C14_SpeakingFeedbackBuckets ==
    SpeakingFeedbackBuilt =>
        LET cefr == calc.arg[1]
            band == calc.arg[2]
            bucket == BucketOf(calc.out)
        IN  /\ bucket = Reached(<< 50, 65 >>, band)
            /\ band = CEFR_TO_IELTS[cefr] =>
                 /\ cefr \in { "A1", "A2" } => bucket = 0
                 /\ cefr = "B1" => bucket = 1
                 /\ cefr \in { "B2", "C1", "C2" } => bucket = 2

\* C14 witness: level B1 with its band 5.0 was given bundle 1, and so was
\* level C2 with the band 5.0.
C14_Witness ==
    /\ calc.fn = "build_speaking_feedback"
    /\ calc.arg[2] = 50
    /\ calc.arg[1] \in { "B1", "C2" }
    /\ BucketOf(calc.out) = 1

\* C15: for every band the writing feedback has exactly the four keys
\* task_response, coherence_cohesion, vocabulary, grammar, in the response of
\* the HTTP writing endpoint and in the result of the writing service's
\* score_writing, and overall_band is one of the 12 values 3.5, 4.0, ..., 9.0.
C15_WritingFeedbackKeys ==
    calc.fn \in { "score_writing", "writing_service.score_writing" } =>
        /\ DOMAIN calc.out.feedback
             = { "task_response", "coherence_cohesion", "vocabulary", "grammar" }
        /\ calc.out.overall_band \in { 35 + 5 * n : n \in 0 .. 11 }

\* A result of predict_cefr_and_band, of app.py or of the speaking service.
CefrPredicted ==
    calc.fn \in { "predict_cefr_and_band", "speaking_service.predict_cefr_and_band" }

\* C20: predict_cefr_and_band maps every logit vector over the 6 CEFR classes
\* to the label of its maximal logit, the lowest class index on ties, and to
\* that label's band of the table A1 2.5, A2 3.5, B1 5.0, B2 6.5, C1 7.5,
\* C2 8.5; the default 0.0 is never returned, and app.py and
\* speaking_service.py give the same result.
C20_CefrArgmaxAndBand ==
    CefrPredicted =>
        LET logits == calc.arg
            cefr == calc.out[1]
            band == calc.out[2]
            labels == << "A1", "A2", "B1", "B2", "C1", "C2" >>
        IN  /\ DOMAIN logits = 0 .. 5
            /\ \E i \in 0 .. 5 :
                 /\ cefr = labels[i + 1]
                 /\ \A j \in 0 .. 5 : logits[j] <= logits[i]
                 /\ \A j \in 0 .. 5 : j < i => logits[j] < logits[i]
            /\ band = CASE cefr = "A1" -> 25 [] cefr = "A2" -> 35
                        [] cefr = "B1" -> 50 [] cefr = "B2" -> 65
                        [] cefr = "C1" -> 75 [] cefr = "C2" -> 85
                        [] OTHER -> -1
            /\ band # 0
            /\ calc.out = predict_cefr_and_band(logits)
            /\ calc.out = speaking_service_predict_cefr_and_band(logits)

\* C20 witness: the logits of B1 and C1 are maximal and equal, and the
\* speaking service answers B1 with band 5.0.
C20_Witness ==
    /\ calc.fn = "speaking_service.predict_cefr_and_band"
    /\ calc.arg[2] = MaxLogit /\ calc.arg[4] = MaxLogit
    /\ calc.arg[0] < MaxLogit /\ calc.arg[1] < MaxLogit
    /\ calc.out = << "B1", 50 >>

\* Task r is about to send its response.
Responding(r) == task[r].pc = "respond"

\* C16: in POST /api/speaking/score-audio, when transcription succeeds but the
\* stripped transcript has fewer than 10 characters, the response is 400 with
\* the "could not extract meaningful text" detail, the speaking classifier is
\* never invoked, and no CEFR level or band is returned.
C16_ShortTranscriptIs400 ==
    \A r \in Req :
        /\ task[r].kind = "score_audio"
        /\ task[r].asr_calls = 1 /\ task[r].textlen \in 0 .. 9
        => /\ ~task[r].invoked
           /\ task[r].pc \notin { "sp_avail", "sp_tok", "sp_model", "sp_ret", "sp_infer" }
           /\ Responding(r) =>
                /\ task[r].status = 400
                /\ task[r].exc = "HTTPException" /\ task[r].reason = "no_speech"
                /\ task[r].body = { "detail" }

\* C16 witness: score-audio answers 400 "no speech" after one engine call that
\* gave a transcript of 9 characters.
C16_Witness ==
    \E r \in Req :
        /\ Responding(r) /\ task[r].kind = "score_audio"
        /\ task[r].asr_calls = 1 /\ task[r].textlen = 9
        /\ task[r].status = 400 /\ task[r].reason = "no_speech"
        /\ "cefr_level" \notin task[r].body

\* C17: within one request the ASR engine's transcribe is invoked at most once
\* and a classifier's inference at most once; an ASR engine error is not
\* retried, leaves transcribe_audio as RuntimeError (transcription failed), and
\* makes /api/transcribe and /api/speaking/score-audio answer 500.
C17_OneShotNoRetry ==
    /\ [](\A r \in Req :
            /\ task[r].asr_calls <= 1
            /\ task[r].reason = "transcription_failed" =>
                 /\ task[r].exc = "RuntimeError"
                 /\ task[r].asr_calls = 1
                 /\ task[r].kind \in { "score_audio", "transcribe" }
                 /\ task[r].pc \in { "t_finally", "t_ret", "respond" }
                 /\ Responding(r) => task[r].status = 500)
    /\ [][ \A r \in Req :
             /\ task[r].asr_calls > 0 /\ task'[r].kind = task[r].kind
                  => task'[r].asr_calls = task[r].asr_calls
             /\ task[r].invoked /\ task'[r].kind = task[r].kind
                  => task'[r].pc \notin { "w_infer", "sp_infer" } ]_vars

\* C17 witness: /api/transcribe answers 500 after its one engine call failed.
C17_Witness ==
    \E r \in Req :
        /\ Responding(r) /\ task[r].kind = "transcribe"
        /\ task[r].reason = "transcription_failed" /\ task[r].asr_calls = 1
        /\ task[r].status = 500

\* The fields of the response schemas: WritingResponse, SpeakingTextResponse,
\* SpeakingAudioResponse, TranscribeResponse.
Schema ==
    [ writing |-> { "overall_band", "confidence", "top_predictions", "feedback" },
      score_text |-> { "cefr_level", "approx_ielts_band", "feedback" },
      score_audio |-> { "transcript", "transcript_info", "cefr_level",
                        "approx_ielts_band", "feedback" },
      transcribe |-> { "text", "language", "duration_seconds", "word_count" } ]

ResultFields == UNION { Schema[k] : k \in DOMAIN Schema }

\* C18: every response of the four POST endpoints is either a success carrying
\* every field of its response schema or an error carrying none of the result
\* fields; when transcription succeeds and the scoring after it fails in
\* score-audio, neither transcript nor transcript_info is returned.
C18_NoPartialResults ==
    \A r \in Req :
        Responding(r) /\ task[r].kind \in DOMAIN Schema =>
            /\ task[r].status = 200 => task[r].body = Schema[task[r].kind]
            /\ task[r].status # 200 =>
                 /\ task[r].status >= 400
                 /\ task[r].body \cap ResultFields = {}
            /\ task[r].exc # "none" => task[r].status # 200

\* C18 witness: score-audio transcribed 10 characters, the scoring after it
\* failed, and the answer is an error without transcript and transcript_info.
C18_Witness ==
    \E r \in Req :
        /\ Responding(r) /\ task[r].kind = "score_audio"
        /\ task[r].asr_calls = 1 /\ task[r].textlen = 10
        /\ task[r].fetched
        /\ task[r].exc \in { "RuntimeError", "FileNotFoundError" }
        /\ task[r].status = 500
        /\ task[r].body \cap { "transcript", "transcript_info" } = {}

\* C19: every error raised while handling a request (validation, model
\* unavailable, inference failure, audio validation, transcription failure, any
\* uncaught exception) becomes an HTTP status with a body that has both an
\* "error" field and a "detail" field.
C19_ErrorBodyHasErrorAndDetail ==
    \A r \in Req :
        Responding(r) /\ task[r].status # 200 =>
            /\ task[r].status >= 400
            /\ { "error", "detail" } \subseteq task[r].body

\* C21: when several writing classes have equal probability, top_predictions
\* lists them by lower class index (lower band) first, and of the classes that
\* tie for the third place the one with the lowest class index is listed.
C21_TiesByLowerIndex ==
    WritingPredicted =>
        LET probs == Softmax(calc.arg)
            idx == calc.top_indices
            listed == { idx[n] : n \in 1 .. Len(idx) }
        IN  /\ \A n, m \in 1 .. Len(idx) :
                 n < m /\ probs[idx[n]] = probs[idx[m]] => idx[n] < idx[m]
            /\ \A i \in WritingClasses \ listed :
                 probs[i] = probs[idx[Len(idx)]] => idx[Len(idx)] < i

\* A result of build_writing_feedback, of app.py or of the writing service.
WritingFeedbackBuilt ==
    calc.fn \in { "build_writing_feedback", "writing_service.build_writing_feedback" }

\* C22: the two copies of the feedback selection are equivalent: for every band
\* of 3.5, 4.0, ..., 9.0 build_writing_feedback of app.py and of the writing
\* service select the same bundle number, and for every band of CEFR_TO_IELTS
\* build_speaking_feedback of app.py and of the speaking service select the
\* same bundle number.
C22_FeedbackCopiesEquivalent ==
    /\ WritingFeedbackBuilt
       /\ calc.arg \in { WRITING_BAND_CLASSES[n] : n \in 1 .. Len(WRITING_BAND_CLASSES) }
       => /\ BucketOf(calc.out) = BucketOf(build_writing_feedback(calc.arg))
          /\ BucketOf(calc.out)
               = BucketOf(writing_service_build_writing_feedback(calc.arg))
    /\ SpeakingFeedbackBuilt
       /\ calc.arg[2] \in { CEFR_TO_IELTS[l] : l \in DOMAIN CEFR_TO_IELTS }
       => /\ BucketOf(calc.out)
               = BucketOf(build_speaking_feedback(calc.arg[1], calc.arg[2]))
          /\ BucketOf(calc.out)
               = BucketOf(speaking_service_build_speaking_feedback(calc.arg[1],
                                                                   calc.arg[2]))

\* C23: transcribe_audio returns the confidence None exactly when
\* include_segments is false or the engine produced no segments, and a number
\* otherwise; score-audio, which never asks for segments, reports
\* transcript_info.confidence as None whatever the engine produced.
C23_ConfidenceAbsentIffNoSegments ==
    /\ calc.fn = "transcribe_audio" =>
         LET include_segments == calc.arg[1]
             result_segments == calc.arg[2]
         IN  /\ calc.out.confidence = None
                  <=> (~include_segments \/ Len(result_segments) = 0)
             /\ calc.out.confidence # None => calc.out.confidence \in 0 .. 100000
    /\ calc.fn = "score_speaking_audio" =>
         calc.out.transcript_info.confidence = None

\* C23 witness: the engine produced two segments of mean no_speech_prob 0.5,
\* transcribe_audio asked for them and returned the confidence 0.5.
C23_Witness ==
    /\ calc.fn = "transcribe_audio"
    /\ calc.arg[1] /\ Len(calc.arg[2]) = 2
    /\ calc.out.segments = calc.arg[2]
    /\ calc.out.confidence = 50000

\* C25: no audio reaches the ASR engine unless decoding has established its
\* duration as at most 300 s; when decoding for the duration check fails,
\* transcribe_audio does not take the duration as 0 and go on to the engine.
C25_EngineOnlyAfterDurationKnown ==
    \A r \in Req :
        task[r].pc = "t_finally" /\ task[r].asr_calls > 0
        => /\ task[r].decode = "ok"
           /\ task[r].duration <= MAX_AUDIO_DURATION_SECONDS

\* Positions of a task between entering transcribe_audio_bytes and the handler
\* taking its result: the call's arguments are still at hand.
InCall == { "t_create", "t_validate", "t_duration", "wm_check", "wm_load",
            "t_transcribe", "t_finally", "t_ret" }

\* The extension of the filename transcribe_audio_bytes is given, lower-cased;
\* empty when the name has none.
ExtensionOf(r) == Lower(PathSuffix(OrElse(task[r].filename, AudioDotWav)))

\* transcribe_audio_bytes has rejected the upload of task r for its extension,
\* before creating a file.
RejectedUnsupported(r) ==
    /\ task[r].pc = "t_ret"
    /\ task[r].exc = "AudioValidationError" /\ task[r].reason = "unsupported"
    /\ ~task[r].temp_path /\ r \notin files

\* C27 (as stated): transcribe_audio_bytes rejects every filename whose
\* extension is not a member of the supported set; a filename with no
\* extension at all is not a member and is rejected.
C27_NoExtensionRejected ==
    \A r \in Req :
        task[r].called /\ task[r].pc \in InCall
        /\ ExtensionOf(r) \notin SUPPORTED_AUDIO_FORMATS
        => RejectedUnsupported(r)

\* C27 (amended): transcribe_audio_bytes rejects every filename that has an
\* extension which, lower-cased, is not a member of the supported set; a
\* filename with no extension is taken as ".wav" and processed, and a filename
\* with a supported extension in any case is processed under that extension.
C27_UnsupportedExtensionRejected ==
    \A r \in Req :
        task[r].called /\ task[r].pc \in InCall =>
            /\ BadExtension(task[r].filename) => RejectedUnsupported(r)
            /\ ExtensionOf(r) = << >> =>
                 /\ task[r].suffix = << ".", "w", "a", "v" >>
                 /\ task[r].reason # "unsupported"
            /\ ExtensionOf(r) \in SUPPORTED_AUDIO_FORMATS =>
                 /\ task[r].suffix = ExtensionOf(r)
                 /\ task[r].reason # "unsupported"

\* C27 witness: an upload named "a", without extension, has been written to a
\* .wav file and transcribed by the engine.
C27_Witness ==
    \E r \in Req :
        /\ task[r].filename = << "a" >>
        /\ task[r].pc = "t_finally" /\ task[r].asr_calls = 1
        /\ task[r].suffix = << ".", "w", "a", "v" >>
        /\ task[r].exc = "none"

\* Positions of score-audio at or after asking for the speaking classifier.
AtScoring == { "sp_avail", "sp_tok", "sp_model", "sp_ret", "sp_infer" }

\* C28: in POST /api/speaking/score-audio the speaking classifier is fetched
\* and invoked only after transcription has returned successfully and the
\* request's temporary audio file has been removed; on an empty upload, an
\* AudioValidationError or a transcription error the speaking classifier is
\* never fetched or invoked.
C28_ScoringAfterTranscription ==
    \A r \in Req :
        task[r].kind = "score_audio" =>
            /\ task[r].pc \in AtScoring \/ task[r].fetched \/ task[r].invoked
               => /\ task[r].asr_calls = 1
                  /\ task[r].textlen >= MinTranscriptLen
                  /\ task[r].pc \in AtScoring =>
                       /\ task[r].exc = "none"
                       /\ r \notin files
            /\ \/ task[r].reason \in { "empty_upload", "transcription_failed",
                                       "whisper_load" }
               \/ task[r].exc = "AudioValidationError"
               => /\ ~task[r].fetched /\ ~task[r].invoked
                  /\ task[r].pc \notin AtScoring

\* Task c leaves _load_model with the load having failed.
LoadFails(c) ==
    /\ task[c].pc = "wm_load"
    /\ task'[c].pc # "wm_load"
    /\ task'[c].reason = "whisper_load"

\* C24: in the ASR path a failed load is not cached.  After _load_model fails,
\* or get_whisper_service catches an ImportError, the cached handle stays
\* empty; the next read of whisper_manager.model attempts the load again
\* whatever failed before; a load that succeeds then is kept and reused.
C24_FailedAsrLoadRetried ==
    /\ [][ /\ \A c \in Callers :
                LoadFails(c) => wm_model' = None /\ whisper_service' = "None"
           /\ \A c \in Callers :
                task[c].pc = "wm_check" /\ task'[c].pc # "wm_check" =>
                    IF wm_model = None
                    THEN task'[c].pc = "wm_load"
                    ELSE task'[c].pc \in { "l_ready", "t_transcribe" }
           /\ wm_model # None =>
                /\ wm_model' = wm_model
                /\ nLoads'.whisper = nLoads.whisper ]_vars
    /\ [](/\ ~whisper_installed => whisper_service = "None" /\ wm_model = None
          /\ whisper_service # "None" => wm_model # None
          /\ nLoads.whisper <= 1)

\* C24 witness: a load of the Whisper model failed in one request, a later
\* request loaded it, and a request after that one uses the cached model.
C24_Witness ==
    \E r \in Req :
        /\ load_failed.whisper
        /\ nLoads.whisper = 1
        /\ wm_model \in Req /\ wm_model # r
        /\ task[r].pc = "t_transcribe"
        /\ task[r].asr_fetched /\ ~task[r].asr_loaded

\* Task c makes a call of change_model_size in this step.
ChangeCall(c) ==
    /\ task[c].pc \in { "idle", "returned" }
    /\ task'[c].kind = "change_model_size" /\ task'[c].pc = "returned"

\* C26: after any sequence of change_model_size calls and model accesses, a
\* cached Whisper model was loaded with the current model_size.  Changing to a
\* different valid size clears the cached model, so that the next access loads
\* again; changing to the current size keeps it; an invalid size raises
\* ValueError and leaves size and cached model as they were.
C26_CachedModelOfCurrentSize ==
    /\ [](/\ wm_model # None => wm_loaded_size = wm_model_size
          /\ wm_model_size \in { "tiny", "base", "small", "medium", "large" }
          /\ \A c \in Req :
               task[c].kind = "preload" /\ task[c].pc = "returned"
               /\ task[c].exc = "none"
               => wm_model # None /\ wm_loaded_size = wm_model_size)
    /\ [][ \A c \in Req :
             /\ ChangeCall(c) =>
                  LET size == task'[c].size_arg
                  IN  /\ size \notin { "tiny", "base", "small", "medium", "large" } =>
                           /\ task'[c].exc = "ValueError"
                           /\ wm_model_size' = wm_model_size
                           /\ wm_model' = wm_model
                      /\ size \in { "tiny", "base", "small", "medium", "large" } =>
                           /\ task'[c].exc = "none"
                           /\ wm_model_size' = size
                           /\ wm_model' = IF size = wm_model_size
                                          THEN wm_model ELSE None
             /\ task[c].pc = "wm_check" /\ task'[c].pc # "wm_check"
                /\ wm_model = None
                => task'[c].pc = "wm_load" ]_vars

\* C26 witness: the model was loaded as "base", the size changed to "large",
\* and the next access loaded the "large" model.
C26_Witness ==
    \E c \in Req :
        /\ task[c].kind = "preload" /\ task[c].pc = "returned"
        /\ task[c].asr_loaded
        /\ nLoads.whisper = 2
        /\ wm_model # None
        /\ wm_model_size = "large" /\ wm_loaded_size = "large"

====
